---- MODULE Spec2Model ----
(***************************************************************************)
(* madns: the request dispatch engine of main.go (handleDNS,               *)
(* handleRedirect, handleRespond and the global RebindMap).                *)
(*                                                                         *)
(* Every inbound query runs handleDNS on its own goroutine.  A goroutine   *)
(* is a record of g (its locals and its position); the only state the      *)
(* goroutines share is RebindMap and the counters it points to.  Domain    *)
(* names are sequences of one-character strings, so that ToLower, Fqdn and *)
(* HasSuffix are computed character by character as the library does.      *)
(***************************************************************************)
EXTENDS Integers, Sequences, FiniteSets, TLC

VARIABLES
    config,     \* MadnsConfig, read once by main and never written again
    RebindMap,  \* sync.Map: policy key -> *atomic.Uint64 (an address of heap)
    heap,       \* the atomic.Uint64 objects allocated so far: address -> value
    g,          \* one record per query received: the locals of its handleDNS call
    written,    \* per query: the messages passed to w.WriteMsg, in order
    exchanges,  \* per query: the dnsClient.Exchange calls made, in order
    notified,   \* per query: the notification calls made, in order
    crashed     \* an unrecovered panic of any goroutine ends the process

vars == <<config, RebindMap, heap, g, written, exchanges, notified, crashed>>

----------------------------------------------------------------------------
(* Bounds of the model.                                                    *)

\* queries the concurrent specification receives
MaxQueries == 2
\* queries the sequential specification receives
MaxSeqQueries == 4
\* queries the rebind specification receives
MaxRebindQueries == 3
\* queries the synthesizer specification receives
MaxSynthQueries == 2
\* queries the long-running sequential client sends: enough to take a
\* counter past CtrModulus
MaxWrapQueries == 18

\* atomic.Uint64 arithmetic is modulo 2^64; the model keeps the wrap-around
\* arithmetic and scales the width down to 4 bits
CtrModulus == 16

----------------------------------------------------------------------------
(* Strings.                                                                *)

Dot == <<".">>

\* configured handler keys
KeyAB    == <<"a", ".", "b">>
KeySubAB == <<"s", ".", "a", ".", "b", ".">>
KeyUpper == <<"A", ".", "B">>
KeyC     == <<"c", ".">>

\* query names as they come off the wire (fully qualified)
NameAB    == <<"a", ".", "b", ".">>
NameDeep  == <<"t", ".", "s", ".", "a", ".", "b", ".">>
NameEvil  == <<"s", "a", ".", "b", ".">>
NameUpper == <<"S", ".", "A", ".", "b", ".">>
NameC     == <<"c", ".">>
NameOther == <<"b", ".">>

\* strings.ToLower, on the letters the model uses
LowerChar(ch) ==
    CASE ch = "A" -> "a"
      [] ch = "B" -> "b"
      [] ch = "S" -> "s"
      [] OTHER -> ch

ToLower(s) == [i \in 1..Len(s) |-> LowerChar(s[i])]

\* dns.IsFqdn / dns.Fqdn without escape sequences: append "." unless the
\* string already ends with one
IsFqdn(s) == Len(s) > 0 /\ s[Len(s)] = "."

Fqdn(s) == IF IsFqdn(s) THEN s ELSE s \o Dot

\* strings.HasSuffix
HasSuffix(s, suffix) ==
    /\ Len(s) >= Len(suffix)
    /\ SubSeq(s, Len(s) - Len(suffix) + 1, Len(s)) = suffix

\* a mutant of the match test: a suffix test with no label boundary
MatchesNoBoundary(name, k) ==
    LET reqFqdn == ToLower(name)
        handlerFqdn == ToLower(Fqdn(k))
    IN  reqFqdn = handlerFqdn \/ HasSuffix(reqFqdn, handlerFqdn)

\* the test of line 113-116 for one handler key k
Matches(name, k) ==
    LET reqFqdn == ToLower(name)
        handlerFqdn == ToLower(Fqdn(k))
    IN  reqFqdn = handlerFqdn \/ HasSuffix(reqFqdn, Dot \o handlerFqdn)

----------------------------------------------------------------------------
(* Literals: the values of Respond and of Rebind.Addrs, character by       *)
(* character as net.ParseIP and strings.TrimSuffix read them.              *)

LitV4a  == <<"1", "0", ".", "0", ".", "0", ".", "1">>
LitV4b  == <<"1", "0", ".", "0", ".", "0", ".", "2">>
LitV4c  == <<"1", "0", ".", "0", ".", "0", ".", "3">>
LitV6   == <<"2", "0", "0", "1", ":", "d", "b", "8", ":", ":", "1">>
LitHost == <<"h", ".", "x">>

\* the literals of the specification's examples, and literals at the edges
\* of the classification
SynthLiterals ==
    {LitV4a, LitV6, LitHost,
     <<"2", "0", "3", ".", "0", ".", "1", "1", "3", ".", "5">>,
     <<"c", "n", "a", "m", "e", ".", "e", "x", "a", "m", "p", "l", "e", ".", "o", "r", "g">>,
     <<"h">>, <<"h", ".">>, <<"h", ".", ".">>, <<".">>,
     <<"0", "1", ".", "2", ".", "3", ".", "4">>,
     <<"1", ".", "2", ".", "3", ".", "4", ".">>,
     <<":", ":", "1">>,
     <<":", ":", "f", "f", "f", "f", ":", "1", ".", "2", ".", "3", ".", "4">>,
     <<"1", ":", ":", "2", ":", ":", "3">>}

----------------------------------------------------------------------------
(* Configurations.                                                         *)

\* MadnsSubConfig; Rebind is a pointer: <<>> is nil, <<r>> points to r
SubConfig(redirect, respond, rebind, email, slack) ==
    [Redirect |-> redirect, Respond |-> respond, Rebind |-> rebind,
     NotifyEmail |-> email, NotifySlack |-> slack]

RebindConfig(addrs) == <<[Addrs |-> addrs]>>

NoHandlers == [k \in {} |-> SubConfig("", <<>>, <<>>, "", "")]

\* the end-to-end example of the specification: one rebind policy of two
\* addresses, no default
CfgRebind ==
    [Handlers |->
        (KeyAB :> SubConfig("", <<>>, RebindConfig(<<LitV4a, LitV4b>>), "", ""))]

\* overlapping keys, each with its own rebind list, and a default that rebinds
CfgOverlap ==
    [Handlers |->
        (KeyAB :> SubConfig("", <<>>,
                    RebindConfig(<<LitV4a, LitV4b, LitV4c>>), "ops@x", ""))
        @@ (KeySubAB :> SubConfig("", <<>>,
                    RebindConfig(<<LitV6, LitHost>>), "", ""))
        @@ (Dot :> SubConfig("", <<>>,
                    RebindConfig(<<LitV4b, LitV4c>>), "", "#chan"))]

\* policies with several actions configured at once
CfgPriority ==
    [Handlers |->
        (KeyAB :> SubConfig("9.9.9.9:53", LitV4c,
                    RebindConfig(<<LitV4a, LitV4b>>), "ops@x", "#chan"))
        @@ (KeyC :> SubConfig("", LitHost,
                    RebindConfig(<<LitV4a, LitV4b>>), "", ""))
        @@ (Dot :> SubConfig("8.8.8.8:53", <<>>, <<>>, "", ""))]

\* policies with no action: notification only, and a rebind entry with an
\* empty list
CfgQuiet ==
    [Handlers |->
        (KeyUpper :> SubConfig("", <<>>, RebindConfig(<<>>), "", "#chan"))
        @@ (Dot :> SubConfig("", <<>>, <<>>, "ops@x", ""))]

\* only a default policy
CfgDefaultOnly ==
    [Handlers |-> (Dot :> SubConfig("", LitV4a, <<>>, "", ""))]

\* no handlers at all
CfgEmpty == [Handlers |-> NoHandlers]

Configs == {CfgRebind, CfgOverlap, CfgPriority, CfgQuiet, CfgDefaultOnly, CfgEmpty}

----------------------------------------------------------------------------
(* Requests.                                                               *)

\* dns.Msg as handleDNS reads it: the question names, and whether
\* w.RemoteAddr() is a *net.TCPAddr
Request(question, tcp) == [Question |-> question, Tcp |-> tcp]

Names == {NameAB, NameDeep, NameEvil, NameUpper, NameC, NameOther}

Requests ==
    {Request(<<n>>, FALSE) : n \in Names}
    \cup {Request(<<NameAB>>, TRUE)}
    \cup {Request(<<>>, FALSE), Request(<<NameAB, NameC>>, FALSE)}

\* the queries of the sequential client
SeqRequests ==
    {Request(<<n>>, FALSE) : n \in {NameAB, NameDeep, NameOther}}
    \cup {Request(<<>>, FALSE)}

\* the queries sent to a server that only rebinds
RebindRequests == {Request(<<n>>, FALSE) : n \in {NameAB, NameDeep, NameOther}}

\* the configurations in which every policy rebinds
RebindConfigs == {CfgRebind, CfgOverlap}

\* a default policy that answers with one literal, from respond or from a
\* rebind list (a list may hold the empty string, respond may not)
SynthConfigs ==
    {[Handlers |-> (Dot :> SubConfig("", lit, <<>>, "ops@x", ""))] : lit \in SynthLiterals}
    \cup {[Handlers |-> (Dot :> SubConfig("", <<>>, RebindConfig(<<lit>>), "", ""))] :
              lit \in SynthLiterals \cup {<<>>}}

\* queries of no, one and two questions
SynthRequests ==
    {Request(<<>>, FALSE), Request(<<NameAB>>, FALSE), Request(<<NameAB, NameC>>, TRUE)}

\* the one query the long-running client repeats
WrapRequests == {Request(<<NameAB>>, FALSE)}

----------------------------------------------------------------------------
(* Domain matching: lines 106-130.                                         *)

\* the orders in which "range config.Handlers" can visit the keys: Go leaves
\* the iteration order of a map unspecified
KeyOrders(h) ==
    LET n == Cardinality(DOMAIN h)
    IN  {o \in [1..n -> DOMAIN h] : \A i, j \in 1..n : o[i] = o[j] => i = j}

NotFound == [processThis |-> FALSE, ck |-> <<>>, panic |-> FALSE]

\* the loop of lines 109-122 from position i of the visiting order: the
\* default key is skipped, the first key that matches wins, and reading
\* req.Question[0] of an empty question section is an index out of range
RECURSIVE ScanHandlers(_, _, _)
ScanHandlers(order, i, req) ==
    IF i > Len(order) THEN NotFound
    ELSE IF order[i] = Dot THEN ScanHandlers(order, i + 1, req)
    ELSE IF Len(req.Question) = 0
        THEN [processThis |-> FALSE, ck |-> <<>>, panic |-> TRUE]
    ELSE IF Matches(req.Question[1], order[i])
        THEN [processThis |-> TRUE, ck |-> order[i], panic |-> FALSE]
    ELSE ScanHandlers(order, i + 1, req)

\* a mutant of the fallback: the default key is taken whenever it is configured
FindHandlerDefaultFirst(h, order, req) ==
    IF Dot \in DOMAIN h
        THEN [processThis |-> TRUE, ck |-> Dot, panic |-> FALSE]
        ELSE ScanHandlers(order, 1, req)

\* a mutant of the lookup: among the keys that match, the longest always wins
FindHandlerLongest(h, order, req) ==
    LET r == ScanHandlers(order, 1, req)
        hits == {k \in DOMAIN h \ {Dot} : Matches(req.Question[1], k)}
    IN  IF r.processThis
            THEN [r EXCEPT !.ck = CHOOSE k \in hits :
                                     \A k2 \in hits : Len(Fqdn(k)) >= Len(Fqdn(k2))]
        ELSE IF ~r.panic /\ Dot \in DOMAIN h
            THEN [processThis |-> TRUE, ck |-> Dot, panic |-> FALSE]
        ELSE r

\* lines 106-130: the loop, then the default key "." if nothing matched
FindHandler(h, order, req) ==
    LET r == ScanHandlers(order, 1, req)
    IN  IF ~r.panic /\ ~r.processThis /\ Dot \in DOMAIN h
            THEN [processThis |-> TRUE, ck |-> Dot, panic |-> FALSE]
            ELSE r

----------------------------------------------------------------------------
(* Messages.                                                               *)

\* m.SetReply(req); m.SetRcode(req, rcode): a reply built by this server
LocalReply(req, rcode, answer) ==
    [Rcode |-> rcode, Question |-> req.Question, Answer |-> answer,
     Compress |-> FALSE, From |-> "local"]

\* a mutant of the failure reply: success status
ServFailAsSuccess(req) == LocalReply(req, "NOERROR", <<>>)

\* lines 133-135 and 191-193
ServFail(req) == LocalReply(req, "SERVFAIL", <<>>)

\* the reply dnsClient.Exchange returns when err == nil, as unpacked
UpstreamReply(req, addr) ==
    [Rcode |-> "NOERROR", Question |-> req.Question, Answer |-> <<>>,
     Compress |-> FALSE, From |-> addr]

\* a mutant of line 182: the flag is left as received
ForwardedUncompressed(r) == r

\* line 182: r.Compress = true
Forwarded(r) == [r EXCEPT !.Compress = TRUE]

\* strings.Split on one separator character
RECURSIVE Split(_, _)
Split(s, sep) ==
    IF \A i \in 1..Len(s) : s[i] # sep
        THEN <<s>>
        ELSE LET i == CHOOSE j \in 1..Len(s) :
                          s[j] = sep /\ \A l \in 1..(j - 1) : s[l] # sep
             IN  <<SubSeq(s, 1, i - 1)>> \o Split(SubSeq(s, i + 1, Len(s)), sep)

HexDigits ==
    <<"0", "1", "2", "3", "4", "5", "6", "7", "8", "9", "a", "b", "c", "d", "e", "f">>

UpperHexDigits == <<"A", "B", "C", "D", "E", "F">>

IsDec(ch) == \E i \in 1..10 : HexDigits[i] = ch

IsHex(ch) == (\E i \in 1..16 : HexDigits[i] = ch) \/ (\E i \in 1..6 : UpperHexDigits[i] = ch)

DigitVal(ch) ==
    IF \E i \in 1..16 : HexDigits[i] = ch
        THEN (CHOOSE i \in 1..16 : HexDigits[i] = ch) - 1
        ELSE (CHOOSE i \in 1..6 : UpperHexDigits[i] = ch) + 9

\* the number a run of digits spells in the given base
RECURSIVE Num(_, _)
Num(f, base) ==
    IF f = <<>> THEN 0
    ELSE Num(SubSeq(f, 1, Len(f) - 1), base) * base + DigitVal(f[Len(f)])

\* one field of a dotted quad: decimal digits, no leading zero, at most 255
DecFieldOK(f) ==
    /\ Len(f) \in 1..3
    /\ \A i \in 1..Len(f) : IsDec(f[i])
    /\ Len(f) > 1 => f[1] # "0"
    /\ Num(f, 10) <= 255

\* the dotted quad s as four bytes, or <<>> when s is none
ParseIPv4(s) ==
    LET f == Split(s, ".")
    IN  IF Len(f) = 4 /\ \A i \in 1..4 : DecFieldOK(f[i])
            THEN [i \in 1..4 |-> Num(f[i], 10)]
            ELSE <<>>

\* one group of an IPv6 address: one to four hexadecimal digits
HexGroupOK(f) == Len(f) \in 1..4 /\ \A i \in 1..Len(f) : IsHex(f[i])

\* the 16-bit groups the colon-separated fields spell; a dotted quad spells two
RECURSIVE FieldGroups(_)
FieldGroups(fs) ==
    IF fs = <<>> THEN <<>>
    ELSE (IF HexGroupOK(Head(fs))
            THEN <<Num(Head(fs), 16)>>
            ELSE LET v == ParseIPv4(Head(fs))
                 IN  <<v[1] * 256 + v[2], v[3] * 256 + v[4]>>)
         \o FieldGroups(Tail(fs))

\* the fields are groups; only the last one may be a dotted quad
FieldsOK(fs, quadAllowed) ==
    \A i \in 1..Len(fs) :
        \/ HexGroupOK(fs[i])
        \/ quadAllowed /\ i = Len(fs) /\ ParseIPv4(fs[i]) # <<>>

\* the IPv6 text s as eight 16-bit groups, or <<>> when s is none: at most
\* one "::", which stands for at least one zero group
ParseIPv6(s) ==
    LET dc == {i \in 1..(Len(s) - 1) : s[i] = ":" /\ s[i + 1] = ":"}
    IN  IF dc = {}
            THEN LET fs == Split(s, ":")
                 IN  IF FieldsOK(fs, TRUE) /\ Len(FieldGroups(fs)) = 8
                         THEN FieldGroups(fs)
                         ELSE <<>>
            ELSE LET i0 == CHOOSE i \in dc : \A j \in dc : i <= j
                     left == SubSeq(s, 1, i0 - 1)
                     right == SubSeq(s, i0 + 2, Len(s))
                     lf == IF left = <<>> THEN <<>> ELSE Split(left, ":")
                     rf == IF right = <<>> THEN <<>> ELSE Split(right, ":")
                 IN  IF FieldsOK(lf, FALSE) /\ FieldsOK(rf, TRUE)
                        /\ Len(FieldGroups(lf)) + Len(FieldGroups(rf)) <= 7
                         THEN FieldGroups(lf)
                              \o [i \in 1..(8 - Len(FieldGroups(lf)) - Len(FieldGroups(rf))) |-> 0]
                              \o FieldGroups(rf)
                         ELSE <<>>

\* net.ParseIP: the 16-byte form as eight groups, <<>> for nil.  The first
\* "." or ":" of s decides which syntax is tried; an IPv4 address comes back
\* as the IPv4-mapped address ::ffff:a.b.c.d
ParseIP(s) ==
    LET seps == {i \in 1..Len(s) : s[i] = "." \/ s[i] = ":"}
    IN  IF seps = {} THEN <<>>
        ELSE IF s[CHOOSE i \in seps : \A j \in seps : i <= j] = "."
            THEN LET v == ParseIPv4(s)
                 IN  IF v = <<>> THEN <<>>
                     ELSE <<0, 0, 0, 0, 0, 65535, v[1] * 256 + v[2], v[3] * 256 + v[4]>>
        ELSE ParseIPv6(s)

\* net.IP.To4: the four bytes of an IPv4-mapped address, <<>> for nil
To4(ip) ==
    IF SubSeq(ip, 1, 6) = <<0, 0, 0, 0, 0, 65535>>
        THEN <<ip[7] \div 256, ip[7] % 256, ip[8] \div 256, ip[8] % 256>>
        ELSE <<>>

\* strings.TrimSuffix: one occurrence of suffix is removed from the end
TrimSuffix(s, suffix) ==
    IF HasSuffix(s, suffix) THEN SubSeq(s, 1, Len(s) - Len(suffix)) ELSE s

RRHeader(name, rrtype) == [Name |-> name, Rrtype |-> rrtype, Class |-> "IN", Ttl |-> 0]

\* lines 205-231: the record built for one question
AnswerRR(name, respond) ==
    LET ip == ParseIP(respond)
    IN  IF ip = <<>>
            THEN [Hdr |-> RRHeader(name, "CNAME"),
                  Target |-> TrimSuffix(respond, Dot) \o Dot]
        ELSE IF To4(ip) = <<>>
            THEN [Hdr |-> RRHeader(name, "AAAA"), AAAA |-> ip]
        ELSE [Hdr |-> RRHeader(name, "A"), A |-> ip]

\* handleRespond, lines 199-232: the message it writes
RespondMsg(req, respond) ==
    LocalReply(req, "NOERROR",
               [i \in 1..Len(req.Question) |-> AnswerRR(req.Question[i], respond)])

----------------------------------------------------------------------------
(* Action selection and the rebind counter: lines 140-153.                 *)

\* a mutant of the selection: respond is tested before redirect
SelectRespondFirst(c) ==
    IF Len(c.Respond) > 0 THEN "respond"
    ELSE IF Len(c.Redirect) > 0 THEN "redirect"
    ELSE IF Len(c.Rebind) > 0 /\ Len(c.Rebind[1].Addrs) > 0 THEN "rebind"
    ELSE "none"

\* the if / else-if chain of lines 141-146
Select(c) ==
    IF Len(c.Redirect) > 0 THEN "redirect"
    ELSE IF Len(c.Respond) > 0 THEN "respond"
    ELSE IF Len(c.Rebind) > 0 /\ Len(c.Rebind[1].Addrs) > 0 THEN "rebind"
    ELSE "none"

\* a mutant of line 149: Store in place of LoadOrStore
StoreAlways(m, key, value) ==
    [map |-> (key :> value) @@ m, actual |-> value, loaded |-> FALSE]

\* sync.Map.LoadOrStore, one atomic step
LoadOrStore(m, key, value) ==
    IF key \in DOMAIN m
        THEN [map |-> m, actual |-> m[key], loaded |-> TRUE]
        ELSE [map |-> (key :> value) @@ m, actual |-> value, loaded |-> FALSE]

\* line 178: retries := 1
InitialRetries == 1

\* a mutant of lines 171-174: the upstream is always asked over udp
ClientNetUdp(req) == "udp"

\* lines 171-174: dnsClient.Net
ClientNet(req) == IF req.Tcp THEN "tcp" ELSE "udp"

\* a mutant of line 185: one attempt too many
RetryOffByOne(retries) == retries >= 0

\* line 185: whether a failed exchange is tried again
Retry(retries) == retries > 0

\* a mutant of line 149: the counter is keyed by the name asked for
CounterKeyByName(call) == call.req.Question[1]

\* line 149: the key of the counter in RebindMap is ck
CounterKey(call) == call.ck

\* a mutant of lines 160-167: the chat notification only when no email goes out
NotificationsEitherOr(c, replied) ==
    IF Len(c.NotifyEmail) > 0
        THEN <<[Kind |-> "email", To |-> c.NotifyEmail, Replied |-> replied]>>
    ELSE IF Len(c.NotifySlack) > 0
        THEN <<[Kind |-> "slack", To |-> c.NotifySlack, Replied |-> replied]>>
    ELSE <<>>

\* the calls of lines 160-167, in order; replied is the number of messages
\* written to the client before the call
Notifications(c, replied) ==
    (IF Len(c.NotifyEmail) > 0
        THEN <<[Kind |-> "email", To |-> c.NotifyEmail, Replied |-> replied]>>
        ELSE <<>>)
    \o (IF Len(c.NotifySlack) > 0
        THEN <<[Kind |-> "slack", To |-> c.NotifySlack, Replied |-> replied]>>
        ELSE <<>>)

\* a mutant of line 151: the counter is read and never advanced
LoadInsteadOfAdd(old, delta) == old

\* atomic.Uint64.Add: the new value
AtomicAdd(old, delta) == (old + delta) % CtrModulus

\* a mutant of line 151: the post-increment value is used
PostIncrement(new) == new

\* line 151: ctr.Add(1) - 1 in unsigned arithmetic
PreIncrement(new) == (new - 1) % CtrModulus

\* line 151: the index into rc.Addrs
RebindIndex(pre, n) == pre % n

----------------------------------------------------------------------------
(* The goroutines.                                                         *)

Queries == 1..Len(g)

\* the locals of a handleDNS call at its entry; ctr 0 is the nil pointer and
\* read -1 stands for "no counter value read"
NewCall(r) ==
    [pc |-> "match", req |-> r, processThis |-> FALSE, ck |-> <<>>,
     net |-> "", retries |-> 0, ctr |-> 0, read |-> -1]

\* the policy c of a call that found its handler
Policy(q) == config.Handlers[g[q].ck]

Finished(q) == g[q].pc \in {"done", "panic"}

Init ==
    /\ config \in Configs
    /\ RebindMap = [k \in {} |-> 0]
    /\ heap = [a \in {} |-> 0]
    /\ g = <<>>
    /\ written = <<>>
    /\ exchanges = <<>>
    /\ notified = <<>>
    /\ crashed = FALSE

\* the server hands a query to handleDNS on a goroutine of its own
Accept(r) ==
    /\ g' = Append(g, NewCall(r))
    /\ written' = Append(written, <<>>)
    /\ exchanges' = Append(exchanges, <<>>)
    /\ notified' = Append(notified, <<>>)
    /\ UNCHANGED <<config, RebindMap, heap, crashed>>

\* lines 75-77: queries arrive at any time
Receive(r) ==
    /\ ~crashed
    /\ Len(g) < MaxQueries
    /\ Accept(r)

\* the same, for a client that sends a query only after the dispatch of the
\* previous one has returned
ReceiveSeq(r) ==
    /\ ~crashed
    /\ Len(g) < MaxSeqQueries
    /\ \A q \in Queries : Finished(q)
    /\ Accept(r)

\* queries arriving at any time at a server whose policies all rebind
ReceiveRebind(r) ==
    /\ ~crashed
    /\ Len(g) < MaxRebindQueries
    /\ Accept(r)

\* queries arriving at any time at a server that answers with one literal
ReceiveSynth(r) ==
    /\ ~crashed
    /\ Len(g) < MaxSynthQueries
    /\ Accept(r)

\* a client that repeats one query, each after the previous dispatch returned
ReceiveWrap(r) ==
    /\ ~crashed
    /\ Len(g) < MaxWrapQueries
    /\ \A q \in Queries : Finished(q)
    /\ Accept(r)

\* an index out of range: the goroutine panics, nothing recovers it and the
\* process ends
Panic(q) ==
    /\ g' = [g EXCEPT ![q].pc = "panic"]
    /\ crashed' = TRUE
    /\ UNCHANGED <<config, RebindMap, heap, written, exchanges, notified>>

\* lines 106-130: find the handler
Match(q) ==
    /\ ~crashed
    /\ g[q].pc = "match"
    /\ \E order \in KeyOrders(config.Handlers) :
          LET r == FindHandler(config.Handlers, order, g[q].req)
          IN  IF r.panic
                  THEN Panic(q)
                  ELSE /\ g' = [g EXCEPT ![q].pc = "matched",
                                         ![q].processThis = r.processThis,
                                         ![q].ck = r.ck]
                       /\ UNCHANGED <<config, RebindMap, heap, written, exchanges,
                                      notified, crashed>>

\* lines 131-138: no handler; the warning reads req.Question[0].Name
NoHandler(q) ==
    /\ ~crashed
    /\ g[q].pc = "matched"
    /\ ~g[q].processThis
    /\ IF Len(g[q].req.Question) = 0
          THEN Panic(q)
          ELSE /\ written' = [written EXCEPT ![q] = Append(@, ServFail(g[q].req))]
               /\ g' = [g EXCEPT ![q].pc = "done"]
               /\ UNCHANGED <<config, RebindMap, heap, exchanges, notified, crashed>>

\* lines 141-142 and 171-178: enter handleRedirect
Redirect(q) ==
    /\ ~crashed
    /\ g[q].pc = "matched"
    /\ g[q].processThis
    /\ Select(Policy(q)) = "redirect"
    /\ g' = [g EXCEPT ![q].pc = "exchange",
                      ![q].net = ClientNet(g[q].req),
                      ![q].retries = InitialRetries]
    /\ UNCHANGED <<config, RebindMap, heap, written, exchanges, notified, crashed>>

\* lines 179-196: one dnsClient.Exchange and what follows it; ok is whether
\* the exchange returned without error
Exchange(q, ok) ==
    /\ ~crashed
    /\ g[q].pc = "exchange"
    /\ exchanges' = [exchanges EXCEPT ![q] =
            Append(@, [Req |-> g[q].req, Addr |-> Policy(q).Redirect, Net |-> g[q].net,
                       Ok |-> ok])]
    /\ IF ok
          THEN /\ written' = [written EXCEPT ![q] =
                      Append(@, Forwarded(UpstreamReply(g[q].req, Policy(q).Redirect)))]
               /\ g' = [g EXCEPT ![q].pc = "notify"]
          ELSE IF Retry(g[q].retries)
              THEN /\ g' = [g EXCEPT ![q].retries = @ - 1]
                   /\ UNCHANGED written
              ELSE /\ written' = [written EXCEPT ![q] = Append(@, ServFail(g[q].req))]
                   /\ g' = [g EXCEPT ![q].pc = "notify"]
    /\ UNCHANGED <<config, RebindMap, heap, notified, crashed>>

\* lines 144-145: the static answer
Respond(q) ==
    /\ ~crashed
    /\ g[q].pc = "matched"
    /\ g[q].processThis
    /\ Select(Policy(q)) = "respond"
    /\ written' = [written EXCEPT ![q] = Append(@, RespondMsg(g[q].req, Policy(q).Respond))]
    /\ g' = [g EXCEPT ![q].pc = "notify"]
    /\ UNCHANGED <<config, RebindMap, heap, exchanges, notified, crashed>>

\* lines 146-150: allocate a counter and load or store it; the new counter
\* gets the address q
RebindLoadOrStore(q) ==
    /\ ~crashed
    /\ g[q].pc = "matched"
    /\ g[q].processThis
    /\ Select(Policy(q)) = "rebind"
    /\ LET r == LoadOrStore(RebindMap, CounterKey(g[q]), q)
       IN  /\ RebindMap' = r.map
           /\ g' = [g EXCEPT ![q].pc = "add", ![q].ctr = r.actual]
    /\ heap' = (q :> 0) @@ heap
    /\ UNCHANGED <<config, written, exchanges, notified, crashed>>

\* lines 151-152: the atomic increment, the choice of the address and
\* handleRespond
RebindAdd(q) ==
    /\ ~crashed
    /\ g[q].pc = "add"
    /\ LET new == AtomicAdd(heap[g[q].ctr], 1)
           pre == PreIncrement(new)
           addrs == Policy(q).Rebind[1].Addrs
           respond == addrs[RebindIndex(pre, Len(addrs)) + 1]
       IN  /\ heap' = [heap EXCEPT ![g[q].ctr] = new]
           /\ g' = [g EXCEPT ![q].pc = "notify", ![q].read = pre]
           /\ written' = [written EXCEPT ![q] = Append(@, RespondMsg(g[q].req, respond))]
    /\ UNCHANGED <<config, RebindMap, exchanges, notified, crashed>>

\* lines 141-153 when no branch is taken
NoAction(q) ==
    /\ ~crashed
    /\ g[q].pc = "matched"
    /\ g[q].processThis
    /\ Select(Policy(q)) = "none"
    /\ g' = [g EXCEPT ![q].pc = "notify"]
    /\ UNCHANGED <<config, RebindMap, heap, written, exchanges, notified, crashed>>

\* lines 155-168: the notifications, and the return
Notify(q) ==
    /\ ~crashed
    /\ g[q].pc = "notify"
    /\ notified' = [notified EXCEPT ![q] = @ \o Notifications(Policy(q), Len(written[q]))]
    /\ g' = [g EXCEPT ![q].pc = "done"]
    /\ UNCHANGED <<config, RebindMap, heap, written, exchanges, crashed>>

Next ==
    \/ \E r \in Requests : Receive(r)
    \/ \E q \in Queries : Match(q)
    \/ \E q \in Queries : NoHandler(q)
    \/ \E q \in Queries : Redirect(q)
    \/ \E q \in Queries : \E ok \in BOOLEAN : Exchange(q, ok)
    \/ \E q \in Queries : Respond(q)
    \/ \E q \in Queries : RebindLoadOrStore(q)
    \/ \E q \in Queries : RebindAdd(q)
    \/ \E q \in Queries : NoAction(q)
    \/ \E q \in Queries : Notify(q)

Spec == Init /\ [][Next]_vars

\* queries sent one after the other
NextSeq ==
    \/ \E r \in SeqRequests : ReceiveSeq(r)
    \/ \E q \in Queries : Match(q)
    \/ \E q \in Queries : NoHandler(q)
    \/ \E q \in Queries : Redirect(q)
    \/ \E q \in Queries : \E ok \in BOOLEAN : Exchange(q, ok)
    \/ \E q \in Queries : Respond(q)
    \/ \E q \in Queries : RebindLoadOrStore(q)
    \/ \E q \in Queries : RebindAdd(q)
    \/ \E q \in Queries : NoAction(q)
    \/ \E q \in Queries : Notify(q)

SpecSeq == Init /\ [][NextSeq]_vars

\* a server configured with rebind policies only: the steps other than
\* these are never enabled
InitRebind == Init /\ config \in RebindConfigs

NextRebind ==
    \/ \E r \in RebindRequests : ReceiveRebind(r)
    \/ \E q \in Queries : Match(q)
    \/ \E q \in Queries : NoHandler(q)
    \/ \E q \in Queries : RebindLoadOrStore(q)
    \/ \E q \in Queries : RebindAdd(q)
    \/ \E q \in Queries : Notify(q)

SpecRebind == InitRebind /\ [][NextRebind]_vars

\* a server whose only policy is a default that answers with one literal
InitSynth ==
    /\ config \in SynthConfigs
    /\ RebindMap = [k \in {} |-> 0]
    /\ heap = [a \in {} |-> 0]
    /\ g = <<>>
    /\ written = <<>>
    /\ exchanges = <<>>
    /\ notified = <<>>
    /\ crashed = FALSE

NextSynth ==
    \/ \E r \in SynthRequests : ReceiveSynth(r)
    \/ \E q \in Queries : Match(q)
    \/ \E q \in Queries : Respond(q)
    \/ \E q \in Queries : RebindLoadOrStore(q)
    \/ \E q \in Queries : RebindAdd(q)
    \/ \E q \in Queries : Notify(q)

SpecSynth == InitSynth /\ [][NextSynth]_vars

\* a rebind-only server that one client queries for the same name again and
\* again, until the counter of the key has wrapped around
NextWrap ==
    \/ \E r \in WrapRequests : ReceiveWrap(r)
    \/ \E q \in Queries : Match(q)
    \/ \E q \in Queries : RebindLoadOrStore(q)
    \/ \E q \in Queries : RebindAdd(q)
    \/ \E q \in Queries : Notify(q)

SpecWrap == InitRebind /\ [][NextWrap]_vars

----------------------------------------------------------------------------
(* What a dispatch did, read from what it left behind.                     *)

\* the dispatch found a handler and is past its action
Acted(q) == g[q].processThis /\ g[q].pc \in {"notify", "done"}

\* q queried the upstream server
Forwards(q) == Len(exchanges[q]) > 0

\* q took a counter of the Rebind State Store
UsesRebind(q) == g[q].ctr # 0

\* q wrote a reply it built itself from a literal
Synthesizes(q) ==
    \E i \in 1..Len(written[q]) :
        written[q][i].From = "local" /\ written[q][i].Rcode = "NOERROR"

\* every answer of the one reply of q is the record of the literal lit
AnswersWith(q, lit) ==
    /\ Len(written[q]) = 1
    /\ written[q][1].Rcode = "NOERROR"
    /\ Len(written[q][1].Answer) = Len(g[q].req.Question)
    /\ \A j \in 1..Len(written[q][1].Answer) :
          written[q][1].Answer[j] = AnswerRR(g[q].req.Question[j], lit)

\* the rebind list of the policy q runs under
AddrsOf(q) == Policy(q).Rebind[1].Addrs

\* q ran the rebind action to its reply
Rebound(q) == Acted(q) /\ Select(Policy(q)) = "rebind"

\* the dispatches before q that selected the key of q
EarlierSameKey(q) == {p \in 1..(q - 1) : g[p].processThis /\ g[p].ck = g[q].ck}

----------------------------------------------------------------------------
(* The claims.                                                             *)

\* C1: under sequential dispatch, the i-th dispatch (i = 0, 1, ...) that
\* selects a rebind key answers with element i mod n of the key's list, so
\* the answers run a0, a1, ..., a(n-1), a0, ... starting with a0.
C1_SequentialCyclicOrder ==
    \A q \in Queries :
        Rebound(q) =>
            LET i == Cardinality(EarlierSameKey(q))
                n == Len(AddrsOf(q))
            IN  AnswersWith(q, AddrsOf(q)[(i % n) + 1])

\* three successive queries for the key of the two-address policy, answered
\* 10.0.0.1, 10.0.0.2, 10.0.0.1
C1_Witness ==
    /\ config = CfgRebind
    /\ Len(g) >= 3
    /\ \A q \in 1..3 : g[q].pc = "done" /\ g[q].ck = KeyAB /\ g[q].req.Question = <<NameAB>>
    /\ AnswersWith(1, LitV4a)
    /\ AnswersWith(2, LitV4b)
    /\ AnswersWith(3, LitV4a)

\* the dispatches of key k that have read the counter
Readers(k) == {q \in Queries : g[q].processThis /\ g[q].ck = k /\ g[q].read # -1}

\* C2: in every interleaving, the N dispatches of a key that have read its
\* counter have read exactly the values 0, ..., N-1, each once, and each
\* answers with the list element at its value mod listLength.
C2_ConcurrentReadsExact ==
    \A k \in DOMAIN config.Handlers :
        /\ {g[q].read : q \in Readers(k)} = 0..(Cardinality(Readers(k)) - 1)
        /\ \A q \in Readers(k) :
              AnswersWith(q, AddrsOf(q)[(g[q].read % Len(AddrsOf(q))) + 1])

\* three dispatches of one key have read the counter, out of arrival order
C2_Witness ==
    /\ Cardinality(Readers(KeyAB)) = 3
    /\ g[3].read = 0
    /\ g[1].read = 2

\* C3: the dispatches of a key all hold the one counter the map holds for
\* that key, whatever the interleaving of their first accesses, and once one
\* of them has read the counter exactly one has read the value 0.
C3_OneCounterPerKey ==
    \A q \in Queries :
        UsesRebind(q) =>
            /\ g[q].ck \in DOMAIN RebindMap
            /\ g[q].ctr = RebindMap[g[q].ck]
            /\ \A p \in Queries : (UsesRebind(p) /\ g[p].ck = g[q].ck) => g[p].ctr = g[q].ctr
            /\ g[q].read # -1 =>
                  Cardinality({p \in Readers(g[q].ck) : g[p].read = 0}) = 1

\* two dispatches made the first access for a key together (both are between
\* LoadOrStore and Add), and the later arrival created the counter
C3_Witness ==
    /\ Len(g) >= 2
    /\ g[1].pc = "add" /\ g[2].pc = "add"
    /\ g[1].ck = g[2].ck
    /\ g[1].ctr = 2 /\ g[2].ctr = 2

\* the three actions, as a dispatch that is past its action took them: it
\* forwarded, it answered from respond, it answered from the rebind list
ActionsTaken(q) ==
    (IF Forwards(q) THEN {"redirect"} ELSE {})
    \cup (IF Synthesizes(q) /\ ~UsesRebind(q) THEN {"respond"} ELSE {})
    \cup (IF UsesRebind(q) THEN {"rebind"} ELSE {})

HasRebindList(c) == Len(c.Rebind) > 0 /\ Len(c.Rebind[1].Addrs) > 0

\* C4 as stated: every dispatch that matched a policy takes exactly one of
\* the three actions.
C4_ExactlyOneAction ==
    \A q \in Queries : Acted(q) => Cardinality(ActionsTaken(q)) = 1

\* C4 as amended: a dispatch that matched a policy takes at most one action,
\* in strict priority: with redirect set it forwards and never synthesizes;
\* else with respond set it answers from respond; it uses the rebind list
\* only when redirect and respond are empty and the list is non-empty; it
\* takes no action only when none of the three is configured.
C4_StrictPriority ==
    \A q \in Queries :
        g[q].processThis =>
            LET c == Policy(q)
            IN  /\ Forwards(q) => Len(c.Redirect) > 0
                /\ Synthesizes(q) => Len(c.Redirect) = 0
                /\ UsesRebind(q) =>
                      Len(c.Redirect) = 0 /\ Len(c.Respond) = 0 /\ HasRebindList(c)
                /\ Acted(q) =>
                      /\ Cardinality(ActionsTaken(q)) <= 1
                      /\ Len(c.Redirect) > 0 => ActionsTaken(q) = {"redirect"}
                      /\ (Len(c.Redirect) = 0 /\ Len(c.Respond) > 0) =>
                            ActionsTaken(q) = {"respond"} /\ AnswersWith(q, c.Respond)
                      /\ (Len(c.Redirect) = 0 /\ Len(c.Respond) = 0 /\ HasRebindList(c)) =>
                            ActionsTaken(q) = {"rebind"}
                      /\ (Len(c.Redirect) = 0 /\ Len(c.Respond) = 0 /\ ~HasRebindList(c)) =>
                            ActionsTaken(q) = {}

\* a policy with redirect, respond and rebind all set forwarded, and a policy
\* with respond and rebind set answered from respond
C4_Witness ==
    /\ config = CfgPriority
    /\ Len(g) = 2
    /\ Acted(1) /\ g[1].ck = KeyAB /\ ActionsTaken(1) = {"redirect"}
    /\ Acted(2) /\ g[2].ck = KeyC /\ ActionsTaken(2) = {"respond"}

\* C5: a forward dispatch whose first exchange succeeds, or whose first
\* fails and whose retry succeeds, writes the upstream reply marked
\* compression-eligible; one whose two exchanges both fail writes a
\* server-failure reply; the retry has the query, address and transport of
\* the first attempt.
C5_ForwardRetry ==
    \A q \in Queries :
        LET ex == exchanges[q]
        IN  /\ \A i \in 1..Len(ex) :
                  /\ ex[i].Req = g[q].req
                  /\ ex[i].Addr = ex[1].Addr /\ ex[i].Addr = Policy(q).Redirect
                  /\ ex[i].Net = ex[1].Net
            /\ (Acted(q) /\ Len(Policy(q).Redirect) > 0) =>
                  /\ Len(ex) >= 1
                  /\ Len(written[q]) = 1
                  /\ (ex[1].Ok \/ (Len(ex) >= 2 /\ ~ex[1].Ok /\ ex[2].Ok)) =>
                        /\ written[q][1].From = Policy(q).Redirect
                        /\ written[q][1].Compress
                  /\ (Len(ex) >= 2 /\ ~ex[1].Ok /\ ~ex[2].Ok) =>
                        /\ written[q][1].From = "local"
                        /\ written[q][1].Rcode = "SERVFAIL"
                        /\ written[q][1].Answer = <<>>

\* one forward consumed its retry and succeeded, another failed twice
C5_Witness ==
    /\ Len(g) = 2
    /\ g[1].pc = "done" /\ Len(exchanges[1]) = 2
    /\ ~exchanges[1][1].Ok /\ exchanges[1][2].Ok /\ written[1][1].Compress
    /\ g[2].pc = "done" /\ Len(exchanges[2]) = 2
    /\ ~exchanges[2][1].Ok /\ ~exchanges[2][2].Ok /\ written[2][1].Rcode = "SERVFAIL"

\* C6: a query that matched a policy with no action configured is answered
\* with a reply of success status and an empty answer section.
C6_NoActionRepliesSuccess ==
    \A q \in Queries :
        (g[q].processThis /\ g[q].pc = "done" /\ Select(Policy(q)) = "none") =>
            /\ Len(written[q]) = 1
            /\ written[q][1].Rcode = "NOERROR"
            /\ written[q][1].Answer = <<>>

\* the match predicate of the Domain Matcher, stated on the characters:
\* case-folded, with k fully qualified, name is k or is some prefix, then
\* ".", then k
SuffixAtLabel(name, k) ==
    LET n == ToLower(name)
        fk == ToLower(Fqdn(k))
    IN  \/ n = fk
        \/ \E i \in 1..Len(n) : n[i] = "." /\ SubSeq(n, i + 1, Len(n)) = fk

\* the non-default keys of the configuration that match name
Candidates(name) == {k \in DOMAIN config.Handlers \ {Dot} : SuffixAtLabel(name, k)}

\* q carries a query name, and its handler lookup has returned
Looked(q) == Len(g[q].req.Question) >= 1 /\ g[q].pc \notin {"match", "panic"}

QName(q) == g[q].req.Question[1]

\* C7: a query whose name matches no non-default key, with no default key
\* configured, gets one server-failure reply with no answers and nothing
\* else: no forward, no synthesis, no counter created or advanced, no
\* notification.
C7_NoHandlerServFail ==
    \A q \in Queries :
        (Len(g[q].req.Question) >= 1 /\ Candidates(QName(q)) = {}
         /\ Dot \notin DOMAIN config.Handlers) =>
            /\ g[q].pc \in {"match", "matched", "done"}
            /\ g[q].pc = "done" =>
                  /\ Len(written[q]) = 1
                  /\ written[q][1].Rcode = "SERVFAIL"
                  /\ written[q][1].Answer = <<>>
            /\ g[q].pc # "done" => written[q] = <<>>
            /\ exchanges[q] = <<>>
            /\ notified[q] = <<>>
            /\ ~UsesRebind(q) /\ g[q].read = -1
            /\ q \notin DOMAIN heap
            /\ \A k \in DOMAIN RebindMap : RebindMap[k] # q

\* a query outside the only configured key got its server-failure reply
\* while another query advanced the key's counter
C7_Witness ==
    /\ config = CfgRebind
    /\ Len(g) = 2
    /\ g[1].pc = "done" /\ QName(1) = NameEvil /\ Len(written[1]) = 1
    /\ g[2].pc = "done" /\ g[2].read = 0

\* C8: every dispatch ends in a reply to the client and none ends in a
\* process-level fault.
C8_AlwaysRepliesNeverFaults ==
    /\ ~crashed
    /\ \A q \in Queries :
          /\ g[q].pc # "panic"
          /\ g[q].pc = "done" => Len(written[q]) >= 1

\* C9: a non-default key selected for a name matches it at a label boundary
\* (so the name that only ends with the characters of a key never selects
\* it), and when some non-default key matches the name, one that matches is
\* selected.
C9_MatchAtLabelBoundary ==
    \A q \in Queries :
        /\ (g[q].processThis /\ g[q].ck # Dot) =>
              /\ g[q].ck \in Candidates(QName(q))
              /\ QName(q) = NameEvil => g[q].ck # KeyAB
        /\ (Looked(q) /\ Candidates(QName(q)) # {}) =>
              g[q].processThis /\ g[q].ck \in Candidates(QName(q))

\* the name that only ends with the characters of the key fell to the
\* default, and the name two labels below it selected the key
C9_Witness ==
    /\ config = CfgOverlap
    /\ Len(g) = 2
    /\ Looked(1) /\ QName(1) = NameEvil /\ g[1].ck = Dot
    /\ Looked(2) /\ QName(2) = NameDeep /\ g[2].ck = KeyAB

\* C10: the default policy is selected exactly when it is configured and no
\* non-default key matches the name, and "no handler" is the outcome exactly
\* when no non-default key matches and no default is configured.
C10_DefaultFallback ==
    \A q \in Queries :
        Looked(q) =>
            /\ (g[q].processThis /\ g[q].ck = Dot) <=>
                  (Dot \in DOMAIN config.Handlers /\ Candidates(QName(q)) = {})
            /\ ~g[q].processThis <=>
                  (Dot \notin DOMAIN config.Handlers /\ Candidates(QName(q)) = {})
            /\ (\E i \in 1..Len(written[q]) : written[q][i] = ServFail(g[q].req)
                                           /\ exchanges[q] = <<>>) =>
                  ~g[q].processThis

\* with a default configured, one name fell to the default and a name under
\* a configured key did not
C10_Witness ==
    /\ config = CfgPriority
    /\ Len(g) = 2
    /\ Looked(1) /\ QName(1) = NameOther /\ g[1].processThis /\ g[1].ck = Dot
    /\ Looked(2) /\ QName(2) = NameC /\ g[2].ck = KeyC

\* the kinds of notification q has requested
Requested(q) == {notified[q][i].Kind : i \in 1..Len(notified[q])}

\* C11: a dispatch that matched a policy requests the email notification
\* exactly when notifyEmail is non-empty and the chat notification exactly
\* when notifySlack is non-empty, whatever action it took and however a
\* forward ended; a dispatch that matched nothing requests none.
C11_NotificationsIndependent ==
    \A q \in Queries :
        /\ (g[q].processThis /\ g[q].pc = "done") =>
              /\ "email" \in Requested(q) <=> Len(Policy(q).NotifyEmail) > 0
              /\ "slack" \in Requested(q) <=> Len(Policy(q).NotifySlack) > 0
              /\ Len(notified[q]) = Cardinality(Requested(q))
              /\ \A i \in 1..Len(notified[q]) :
                    notified[q][i].To = IF notified[q][i].Kind = "email"
                                            THEN Policy(q).NotifyEmail
                                            ELSE Policy(q).NotifySlack
        /\ g[q].pc # "done" => notified[q] = <<>>
        /\ ~g[q].processThis => notified[q] = <<>>

\* a forward that failed twice and a static answer both requested the email
\* and the chat notification
C11_Witness ==
    /\ Len(g) = 2
    /\ g[1].pc = "done" /\ Len(exchanges[1]) = 2 /\ written[1][1].Rcode = "SERVFAIL"
    /\ Requested(1) = {"email", "slack"}
    /\ g[2].pc = "done" /\ Len(exchanges[2]) = 1 /\ exchanges[2][1].Ok
    /\ Requested(2) = {"email", "slack"}

\* C12: whenever a notification is requested for a query, the reply for that
\* query has already been written to the client.
C12_ReplyBeforeNotification ==
    \A q \in Queries :
        \A i \in 1..Len(notified[q]) : notified[q][i].Replied >= 1

\* the literal handleRespond was given by a dispatch that synthesized
LiteralOf(q) ==
    IF Select(Policy(q)) = "respond"
        THEN Policy(q).Respond
        ELSE AddrsOf(q)[(g[q].read % Len(AddrsOf(q))) + 1]

\* q wrote the reply of its respond or rebind action
Synthesized(q) ==
    /\ Acted(q)
    /\ Select(Policy(q)) \in {"respond", "rebind"}

\* s without the "." characters at its end
RECURSIVE StripDots(_)
StripDots(s) ==
    IF Len(s) > 0 /\ s[Len(s)] = "." THEN StripDots(SubSeq(s, 1, Len(s) - 1)) ELSE s

EndsInOneDot(s) ==
    /\ Len(s) >= 1 /\ s[Len(s)] = "."
    /\ Len(s) >= 2 => s[Len(s) - 1] # "."

\* C13: the target of a synthesized CNAME is the literal with every trailing
\* "." stripped and one "." appended, so it ends in exactly one dot.
C13_TargetOneTrailingDot ==
    \A q \in Queries :
        Synthesized(q) =>
            \A j \in 1..Len(written[q][1].Answer) :
                LET rr == written[q][1].Answer[j]
                IN  rr.Hdr.Rrtype = "CNAME" =>
                        /\ rr.Target = StripDots(LiteralOf(q)) \o Dot
                        /\ EndsInOneDot(rr.Target)

\* the class of a literal, from its syntax
LiteralType(lit) ==
    IF ParseIPv4(lit) # <<>> THEN "A"
    ELSE IF ParseIPv6(lit) # <<>> THEN "AAAA"
    ELSE "CNAME"

\* C14: a synthesized reply has success status and one answer per question;
\* every record has TTL 0 and the type of the literal's class: IPv4 -> A,
\* IPv6 -> AAAA, anything else -> CNAME.
C14_OneRecordPerQuestion ==
    \A q \in Queries :
        Synthesized(q) =>
            /\ Len(written[q]) = 1
            /\ written[q][1].Rcode = "NOERROR"
            /\ Len(written[q][1].Answer) = Len(g[q].req.Question)
            /\ \A j \in 1..Len(written[q][1].Answer) :
                  LET rr == written[q][1].Answer[j]
                  IN  /\ rr.Hdr.Name = g[q].req.Question[j]
                      /\ rr.Hdr.Ttl = 0
                      /\ rr.Hdr.Rrtype = LiteralType(LiteralOf(q))

\* C15: every upstream exchange of a forward dispatch, the retry included,
\* uses the transport the query arrived on.
C15_SameTransport ==
    \A q \in Queries :
        \A i \in 1..Len(exchanges[q]) :
            /\ g[q].req.Tcp => exchanges[q][i].Net = "tcp"
            /\ ~g[q].req.Tcp => exchanges[q][i].Net = "udp"

\* a query that arrived over TCP was retried over TCP, and one that arrived
\* over UDP was forwarded over UDP
C15_Witness ==
    /\ Len(g) = 2
    /\ g[1].req.Tcp /\ Len(exchanges[1]) = 2
    /\ exchanges[1][1].Net = "tcp" /\ exchanges[1][2].Net = "tcp"
    /\ ~g[2].req.Tcp /\ Len(exchanges[2]) >= 1 /\ exchanges[2][1].Net = "udp"

\* C16: a forward dispatch makes at most two exchanges, the second only
\* after the first failed; while it is still in handleRedirect every
\* exchange made so far has failed and fewer than two were made, and once
\* it has left the last exchange succeeded or was the second.
C16_AtMostTwoAttempts ==
    \A q \in Queries :
        LET ex == exchanges[q]
        IN  /\ Len(ex) <= 2
            /\ Len(ex) = 2 => ~ex[1].Ok
            /\ g[q].pc = "exchange" =>
                  /\ Len(ex) < 2
                  /\ \A i \in 1..Len(ex) : ~ex[i].Ok
                  /\ g[q].retries = InitialRetries - Len(ex)
            /\ (Acted(q) /\ Len(Policy(q).Redirect) > 0) =>
                  /\ Len(ex) >= 1
                  /\ ex[Len(ex)].Ok \/ Len(ex) = 2

\* one forward ended after a single successful exchange while another, whose
\* two exchanges failed, had returned
C16_Witness ==
    /\ Len(g) = 2
    /\ g[1].pc = "done" /\ Len(exchanges[1]) = 1 /\ exchanges[1][1].Ok
    /\ g[2].pc = "done" /\ Len(exchanges[2]) = 2 /\ ~exchanges[2][2].Ok

\* the keys the lookup can return for a request, over the orders in which
\* the map can be visited
Selectable(req) ==
    {FindHandler(config.Handlers, o, req).ck : o \in KeyOrders(config.Handlers)}

\* C17: when more than one non-default key matches a name, the lookup can
\* return any of them: the choice is not determined by the name and the
\* configuration.
C17_ChoiceNotDetermined ==
    \A q \in Queries :
        (Len(g[q].req.Question) >= 1 /\ Cardinality(Candidates(QName(q))) > 1) =>
            /\ Selectable(g[q].req) = Candidates(QName(q))
            /\ Looked(q) => g[q].ck \in Selectable(g[q].req)

\* two dispatches of the same request selected different keys, and each
\* advanced the counter of its own key
C17_Witness ==
    /\ config = CfgOverlap
    /\ Len(g) = 2
    /\ g[1].req = g[2].req /\ Len(g[1].req.Question) = 1 /\ QName(1) = NameDeep
    /\ g[1].ck = KeyAB /\ g[2].ck = KeySubAB
    /\ g[1].read = 0 /\ g[2].read = 0
    /\ RebindMap[KeyAB] # RebindMap[KeySubAB]

\* C18: the counters are keyed by the matched policy key and change only
\* through the rebind action: a key has a counter exactly when a dispatch
\* that selected it took the rebind action, the counter's value is the
\* number of those dispatches that have incremented it, and a dispatch that
\* does not rebind allocates and advances nothing.
C18_CountersFrame ==
    /\ \A k \in DOMAIN RebindMap \cup DOMAIN config.Handlers :
          /\ k \in DOMAIN RebindMap <=>
                \E q \in Queries : g[q].processThis /\ g[q].ck = k /\ UsesRebind(q)
          /\ k \in DOMAIN RebindMap =>
                heap[RebindMap[k]] = Cardinality(Readers(k)) % CtrModulus
    /\ \A q \in Queries :
          /\ UsesRebind(q) =>
                /\ g[q].processThis
                /\ Len(Policy(q).Redirect) = 0 /\ Len(Policy(q).Respond) = 0
                /\ HasRebindList(Policy(q))
          /\ ~UsesRebind(q) => q \notin DOMAIN heap /\ g[q].read = -1

\* queries for two different names selected the same key and advanced its
\* one counter to 2
C18_Witness ==
    /\ config = CfgOverlap
    /\ Len(g) = 2
    /\ g[1].req.Question = <<NameAB>> /\ g[2].req.Question = <<NameDeep>>
    /\ g[1].ck = KeyAB /\ g[2].ck = KeyAB
    /\ g[1].pc = "done" /\ g[2].pc = "done"
    /\ heap[RebindMap[KeyAB]] = 2

\* the index into the rebind list that q used
IndexOf(q) == g[q].read % Len(AddrsOf(q))

\* C19: a key's counter starts at 0 and grows by 1 per rebind dispatch, and
\* at every dispatch, the one at which the counter wraps around included,
\* the index used is the previous index of the key plus 1, modulo the
\* length of the list.
C19_CyclicAcrossWrap ==
    \A q \in Queries :
        Rebound(q) =>
            IF EarlierSameKey(q) = {}
                THEN g[q].read = 0
                ELSE LET p == CHOOSE x \in EarlierSameKey(q) :
                                  \A y \in EarlierSameKey(q) : y <= x
                     IN  IndexOf(q) = (IndexOf(p) + 1) % Len(AddrsOf(q))

====
